---- MODULE Spec2Model ----
(***************************************************************************)
(* BeatFrame Creator: the beat-to-image selection rule (getImageForTime,   *)
(* Timeline.getImageForBeat, VideoPreview), the three variants of          *)
(* exportVideo (the simulated one of src/lib/videoExport.ts and the two    *)
(* MediaRecorder ones), ExportPanel.handleExport and the image list of     *)
(* Index (handleImagesUpload, handleRemoveImage, handleReorderImages),     *)
(* ExportPanel from render to render, and the audio file of Index          *)
(* (handleAudioUpload, handlePlayPause, handleScrub, handleReset).         *)
(*                                                                         *)
(* Times are counted in ticks (integers); only their order matters to the  *)
(* code.  Progress values are exact rationals [num, den]; den = 0 is NaN.  *)
(***************************************************************************)
EXTENDS Integers, Sequences, FiniteSets, TLC

VARIABLES
  variant,          \* which videoExport module is linked in
  images,           \* string[]: the image list (data URLs, as tokens >= 1)
  beats,            \* BeatInfo[]: the beat times
  audioFile,        \* File | null
  currentTime,      \* the time handed to getImageForTime / Index.currentTime
  fnPc,             \* pure-function harness: "args" | "called"
  beatIndex,        \* Timeline: the beat whose thumbnail is rendered
  imageIndex,       \* result of getImageForTime
  thumbnail,        \* result of Timeline.getImageForBeat
  lastImageIndex,   \* VideoPreview.lastImageIndex.current
  prevTime,         \* playback: the previous currentTime
  prevImageIndex,   \* playback: the image index selected at prevTime
  \* ---- one exportVideo call
  options,          \* [width, height, fps]
  audioDuration,    \* audio.duration of the audio file, in ticks
  pc,               \* where the call stands (which callback is pending)
  caller,           \* "none" | "direct" | "panel"
  currentStep,      \* simulated variant: let currentStep
  progressLog,      \* every value passed to onProgress, in order
  frameTime,        \* currentTime of the latest renderFrame
  frames,           \* number of renderFrame runs
  durationKnown,    \* audio metadata loaded (audio.duration is not NaN)
  currentImageIndex, lastBeatTime, currentBeatIndex,   \* render-loop locals
  drawn,            \* index of the image last handed to the canvas
  settledImages,    \* part_004: images whose onload/onerror has run
  recorderState,    \* "none" | "recording" | "inactive"
  timersArmed,      \* number of setTimeout calls made by exportVideo
  result,           \* the Blob the promise resolved with
  resolveCalls,     \* number of resolve() calls
  rejectError,      \* message of the Error the promise rejected with
  \* ---- ExportPanel
  isExporting, exportProgress, isComplete, download,
  prevCall,         \* outcome of the previous exportVideo call
  \* ---- Index: the image list
  uploads,          \* handleImagesUpload calls waiting on a FileReader
  started,          \* number of handleImagesUpload calls made
  edits,            \* number of handleRemoveImage / handleReorderImages calls
  lastToast,        \* the latest toast / alert shown
  \* ---- Index: the audio file
  isProcessing, isPlaying,
  indexAudioDuration, \* Index's audioDuration state
  detections,       \* handleAudioUpload calls waiting on the beat detector
  audioCalls,       \* number of handleAudioUpload calls made
  lastDrop,         \* the files argument of the latest handleAudioUpload call
  loadedAudio,      \* beatDetector: the file whose decoded buffer it holds
  audioPlaying,     \* beatDetector: playback is running and reports its time
  restartTimers,    \* handleScrub: pending setTimeout(..., 50) callbacks
  \* ---- ExportPanel as rendered
  rendered,         \* the isProcessing / isExporting the latest render closed over
  inFlight,         \* exportVideo calls of the panel that have not settled
  exportCalls       \* number of clicks on the export button

fnVars == <<fnPc, beatIndex, imageIndex, thumbnail>>
previewVars == <<lastImageIndex, prevTime, prevImageIndex>>
inputVars == <<variant, images, beats, audioFile>>
envVars == <<options, audioDuration>>
callVars == <<pc, caller, currentStep, progressLog, frameTime, frames, durationKnown,
              currentImageIndex, lastBeatTime, currentBeatIndex, drawn, settledImages,
              recorderState, timersArmed, result, resolveCalls, rejectError>>
panelVars == <<isExporting, exportProgress, isComplete, download>>
exportVars == <<envVars, callVars, panelVars, prevCall>>
audioVars == <<isProcessing, isPlaying, indexAudioDuration, detections, audioCalls,
               lastDrop, loadedAudio, audioPlaying, restartTimers>>
renderVars == <<rendered, inFlight, exportCalls>>
uploadVars == <<uploads, started, edits, lastToast, audioVars, renderVars>>

\* ---------------------------------------------------------------- bounds
MaxBeats == 3
MaxTime == 3
MaxImages == 3
MaxStep == 2          \* most ticks between two animation frames
MaxUploads == 2       \* handleImagesUpload calls in one run
MaxEdits == 1         \* removals and reorderings in one run
BigBatch == 151       \* files in a large drop

\* ------------------------------------------------------------ vocabulary
Variants == {"videoExport", "part_003", "part_004"}
NoImage == 0
NoFile == "null"
NoIndex == -1
Times == 0..MaxTime
AudioFiles == {NoFile, "audio"}
NoBlob == [type |-> "none", data |-> "none"]
NoDownload == [name |-> "none", type |-> "none"]
NoCall == [outcome |-> "none", blob |-> NoBlob, progress |-> <<>>, images |-> <<>>,
           beats |-> <<>>, audioFile |-> NoFile, options |-> [width |-> 0, height |-> 0, fps |-> 0]]

SeqsUpTo(S, n) == UNION {[1..k -> S] : k \in 0..n}
IsSorted(s) == \A i \in 1..(Len(s) - 1) : s[i] <= s[i + 1]
IsStrictlySorted(s) == \A i \in 1..(Len(s) - 1) : s[i] < s[i + 1]
SetMax(S) == CHOOSE x \in S : \A y \in S : y <= x

BeatLists == SeqsUpTo(Times, MaxBeats)
ImageLists == {[i \in 1..n |-> i] : n \in 0..MaxImages}

\* ------------------------------------------------------- pure functions
\* The scan shared by getImageForTime and the render loops:
\*   for (i = 0; i < beats.length; i++) { if (beats[i].time <= time) acc = i; else break; }
\* Indexes are the code's (0-based); beats[i] of the code is bs[i + 1] here.
RECURSIVE ScanBeats(_, _, _, _)
ScanBeats(bs, time, i, acc) ==
  IF i >= Len(bs) THEN acc
  ELSE IF bs[i + 1] <= time THEN ScanBeats(bs, time, i + 1, i)
  ELSE acc

\* Mutant: the beat index is returned as it is, without cycling through the images.
getImageForTime_NoCycling(time, bs, imgs) ==
  IF Len(bs) = 0 \/ Len(imgs) = 0 THEN 0
  ELSE ScanBeats(bs, time, 0, 0)

\* Mutant: the image advances on every second beat only.
getImageForTime_EverySecondBeat(time, bs, imgs) ==
  IF Len(bs) = 0 \/ Len(imgs) = 0 THEN 0
  ELSE (ScanBeats(bs, time, 0, 0) \div 2) % Len(imgs)

\* src/lib/videoExport.ts
getImageForTime(time, bs, imgs) ==
  IF Len(bs) = 0 \/ Len(imgs) = 0 THEN 0
  ELSE ScanBeats(bs, time, 0, 0) % Len(imgs)

\* the first MediaRecorder variant
getImageForTime_part_003(time, bs, imgs) ==
  IF Len(bs) = 0 \/ Len(imgs) = 0 THEN 0
  ELSE ScanBeats(bs, time, 0, 0) % Len(imgs)

\* the second MediaRecorder variant: Math.floor(closestBeatIndex / 2)
getImageForTime_part_004(time, bs, imgs) ==
  IF Len(bs) = 0 \/ Len(imgs) = 0 THEN 0
  ELSE (ScanBeats(bs, time, 0, 0) \div 2) % Len(imgs)

GetImageForTimeOf(v, time, bs, imgs) ==
  CASE v = "videoExport" -> getImageForTime(time, bs, imgs)
    [] v = "part_003" -> getImageForTime_part_003(time, bs, imgs)
    [] v = "part_004" -> getImageForTime_part_004(time, bs, imgs)

\* Timeline.tsx
getImageForBeat(imgs, i) ==
  IF Len(imgs) > 0 THEN imgs[(i % Len(imgs)) + 1] ELSE NoImage

\* ------------------------------------------------------- idle components
\* No exportVideo call has been made and the panel is at rest.
AudioUnused ==
  /\ isProcessing = FALSE /\ isPlaying = FALSE /\ indexAudioDuration = 0
  /\ detections = <<>> /\ audioCalls = 0 /\ lastDrop = <<>>
  /\ loadedAudio = NoFile /\ audioPlaying = FALSE /\ restartTimers = 0
RenderUnused ==
  /\ rendered = [isProcessing |-> FALSE, isExporting |-> FALSE]
  /\ inFlight = 0 /\ exportCalls = 0
UploadUnused ==
  /\ uploads = <<>> /\ started = 0 /\ edits = 0 /\ lastToast = "none"
  /\ AudioUnused
  /\ RenderUnused
PanelOptions == [width |-> 1280, height |-> 720, fps |-> 30]
ExportIdle ==
  /\ pc = "idle" /\ caller = "none" /\ currentStep = 0 /\ progressLog = <<>>
  /\ frameTime = 0 /\ frames = 0 /\ durationKnown = FALSE
  /\ currentImageIndex = 0 /\ lastBeatTime = 0 /\ currentBeatIndex = 0
  /\ drawn = NoIndex /\ settledImages = {}
  /\ recorderState = "none" /\ timersArmed = 0
  /\ result = NoBlob /\ resolveCalls = 0 /\ rejectError = ""
  /\ isExporting = FALSE /\ exportProgress = [num |-> 0, den |-> 1]
  /\ isComplete = FALSE /\ download = NoDownload
  /\ prevCall = NoCall
ExportUnused ==
  /\ options = PanelOptions /\ audioDuration = 1
  /\ ExportIdle
  /\ UploadUnused
PreviewUnused ==
  /\ lastImageIndex = NoIndex /\ prevTime = 0 /\ prevImageIndex = 0
FnUnused ==
  /\ fnPc = "args" /\ beatIndex = 0 /\ imageIndex = 0 /\ thumbnail = NoImage

\* ------------------------------------------- pure-function specification
InitFn ==
  /\ variant \in Variants
  /\ images \in ImageLists
  /\ beats \in BeatLists
  /\ audioFile = NoFile
  /\ currentTime \in Times
  /\ beatIndex \in 0..(MaxBeats - 1)
  /\ fnPc = "args"
  /\ imageIndex = 0
  /\ thumbnail = NoImage
  /\ PreviewUnused
  /\ ExportUnused

\* One evaluation of getImageForTime(currentTime, beats, images) and, when
\* beatIndex is a beat of the list, of Timeline's getImageForBeat(beatIndex).
CallGetImageForTime ==
  /\ fnPc = "args"
  /\ fnPc' = "called"
  /\ imageIndex' = GetImageForTimeOf(variant, currentTime, beats, images)
  /\ thumbnail' = getImageForBeat(images, beatIndex)
  /\ UNCHANGED <<inputVars, currentTime, beatIndex, previewVars, exportVars, uploadVars>>

\* The harness takes its next arguments.
NextArguments ==
  /\ fnPc = "called"
  /\ fnPc' = "args"
  /\ currentTime' \in Times
  /\ beatIndex' \in 0..(MaxBeats - 1)
  /\ imageIndex' = 0
  /\ thumbnail' = NoImage
  /\ UNCHANGED <<inputVars, previewVars, exportVars, uploadVars>>

vars == <<inputVars, currentTime, fnVars, previewVars, exportVars, uploadVars>>

NextFn == CallGetImageForTime \/ NextArguments
SpecFn == InitFn /\ [][NextFn]_vars

\* ------------------------------------------------- preview specification
\* VideoPreview's effect on [currentTime, images, beats] (part_002 29-60): the
\* value it leaves in lastImageIndex.current when run at time t.
PreviewEffect(t, last) ==
  IF Len(images) = 0 \/ Len(beats) = 0 THEN last
  ELSE GetImageForTimeOf(variant, t, beats, images)

InitPreview ==
  /\ variant \in Variants
  /\ images \in ImageLists
  /\ beats \in BeatLists
  /\ audioFile = NoFile
  /\ currentTime = 0
  /\ lastImageIndex = PreviewEffect(0, NoIndex)    \* the effect ran on mount
  /\ prevTime = 0
  /\ prevImageIndex = lastImageIndex
  /\ FnUnused
  /\ ExportUnused

SetCurrentTime(t) ==
  /\ prevTime' = currentTime
  /\ prevImageIndex' = lastImageIndex
  /\ currentTime' = t
  /\ lastImageIndex' = PreviewEffect(t, lastImageIndex)
  /\ UNCHANGED <<inputVars, fnVars, exportVars, uploadVars>>

\* Index.handlePlayPause's playAudio callback: playback reports a later time.
PlaybackTimeUpdate ==
  \E t \in Times : t > currentTime /\ SetCurrentTime(t)

\* Index.handleScrub: the user moves the play head to any time.
HandleScrub ==
  \E t \in Times : t # currentTime /\ SetCurrentTime(t)

\* Index.handleReset
HandleReset ==
  currentTime # 0 /\ SetCurrentTime(0)

NextPreview == PlaybackTimeUpdate \/ HandleScrub \/ HandleReset
SpecPreview == InitPreview /\ [][NextPreview]_vars

\* The beats (0-based indexes) whose time lies in (from, to].
BeatsCrossed(from, to) ==
  {i \in 0..(Len(beats) - 1) : from < beats[i + 1] /\ beats[i + 1] <= to}
C2_Premise ==
  variant = "videoExport" /\ IsStrictlySorted(beats) /\ Len(images) >= 2

\* C2 (as claimed): over beats with strictly increasing times and at least two
\* images, when the time advances the selected image index changes at every
\* beat time and stays the same between two consecutive beat times.
C2_ChangesAtEveryBeat ==
  [][(C2_Premise /\ currentTime' > currentTime) =>
       /\ Cardinality(BeatsCrossed(currentTime, currentTime')) = 1
            => lastImageIndex' # lastImageIndex
       /\ BeatsCrossed(currentTime, currentTime') = {}
            => lastImageIndex' = lastImageIndex]_vars

\* C2 (amended): the index changes at every beat time except the first beat's
\* (image 0 is shown from time 0 until the second beat), and stays the same
\* between two consecutive beat times.
C2_ChangesAtEveryBeatAfterFirst ==
  [][(C2_Premise /\ currentTime' > currentTime) =>
       /\ (\E i \in 1..(Len(beats) - 1) : BeatsCrossed(currentTime, currentTime') = {i})
            => lastImageIndex' # lastImageIndex
       /\ BeatsCrossed(currentTime, currentTime') \subseteq {0}
            => lastImageIndex' = lastImageIndex]_vars

\* C2 witness: the time has just advanced over exactly one beat, not the first,
\* and the selected image index changed.
C2_Witness ==
  /\ C2_Premise
  /\ currentTime > prevTime
  /\ \E i \in 1..(Len(beats) - 1) : BeatsCrossed(prevTime, currentTime) = {i}
  /\ lastImageIndex # prevImageIndex

\* ------------------------------------------------------ progress values
\* JavaScript numbers as exact rationals; den = 0 stands for NaN.
Rat(n, d) == [num |-> n, den |-> d]
Whole(n) == Rat(n, 1)
NaN == Rat(0, 0)
IsNaN(r) == r.den = 0
RatLE(a, b) == ~IsNaN(a) /\ ~IsNaN(b) /\ a.num * b.den <= b.num * a.den
RatEq(a, b) == ~IsNaN(a) /\ ~IsNaN(b) /\ a.num * b.den = b.num * a.den
\* Math.min(a, b)
MathMin(a, b) == IF IsNaN(a) \/ IsNaN(b) THEN NaN ELSE IF RatLE(a, b) THEN a ELSE b
Last(s) == s[Len(s)]

\* ------------------------------------------------------------ exportVideo
totalSteps == 5
NestedTimers == 5
MissingDataMessage == "Missing required data for video export"

\* Mutant: the beat list is not checked.
MissingRequiredData_BeatsUnchecked(imgs, file, bs) ==
  Len(imgs) = 0 \/ file = NoFile

\* if (!images.length || !audioFile || !beats.length), the same in all variants
MissingRequiredData(imgs, file, bs) ==
  Len(imgs) = 0 \/ file = NoFile \/ Len(bs) = 0

\* simulated variant: (currentStep / totalSteps) * 100
SimProgress(step) == Rat(step * 100, totalSteps)

\* Mutant: the buffer is sized by the number of images.
SimBlob_SizedByImages ==
  [type |-> "video/mp4",
   data |-> [size |-> 1024 * 1024 * Len(images),
             head |-> <<0, 0, 0, 24, 102, 116, 121, 112, 105, 115, 111, 109,
                        0, 0, 0, 1, 105, 115, 111, 109, 97, 118, 99, 49>>]]

\* simulated variant: new Blob([buffer], {type: 'video/mp4'}), buffer of 1 MB
\* whose first 24 bytes are the ftyp signature and whose other bytes are 0.
SimBlob ==
  [type |-> "video/mp4",
   data |-> [size |-> 1024 * 1024,
             head |-> <<0, 0, 0, 24, 102, 116, 121, 112, 105, 115, 111, 109,
                        0, 0, 0, 1, 105, 115, 111, 109, 97, 118, 99, 49>>]]

\* MediaRecorder variants: new Blob(chunks, {type: 'video/webm'})
RecordedBlob == [type |-> "video/webm", data |-> "chunks"]

\* currentTime < audio.duration
BeforeAudioEnd(t) == durationKnown /\ t < audioDuration
\* base + (currentTime / audio.duration) * span
Scaled(base, span, t) ==
  IF durationKnown THEN Rat(base * audioDuration + span * t, audioDuration) ELSE NaN
\* part_003: Math.min(90, 20 + (currentTime / audio.duration) * 70)
FrameProgress_part_003(t) == MathMin(Whole(90), Scaled(20, 70, t))
\* part_004: Math.min(90, 30 + (currentTime / audio.duration) * 60)
FrameProgress_part_004(t) == MathMin(Whole(90), Scaled(30, 60, t))

\* The first renderFrame runs right after startTime is taken.
FirstFrameTimes == 0..1
NextFrameTimes == (frameTime + 1)..(frameTime + MaxStep)

\* reject(new Error(...)); return
Rejects ==
  /\ pc' = "rejected"
  /\ rejectError' = MissingDataMessage
  /\ UNCHANGED <<currentStep, progressLog, frameTime, frames, durationKnown,
                 currentImageIndex, lastBeatTime, currentBeatIndex, drawn,
                 settledImages, recorderState, timersArmed, result, resolveCalls>>

\* videoExport.ts: the executor arms the first of five nested timers.
Begin_videoExport ==
  /\ pc' = "simTimer"
  /\ currentStep' = 0
  /\ timersArmed' = timersArmed + 1
  /\ UNCHANGED <<progressLog, frameTime, frames, durationKnown, currentImageIndex,
                 lastBeatTime, currentBeatIndex, drawn, settledImages, recorderState,
                 result, resolveCalls, rejectError>>

\* part_003: recorder started, progress 10, 20, 30 reported, 500 ms timer armed.
Begin_part_003 ==
  /\ recorderState' = "recording"
  /\ currentImageIndex' = 0
  /\ lastBeatTime' = 0
  /\ progressLog' = progressLog \o <<Whole(10), Whole(20), Whole(30)>>
  /\ timersArmed' = timersArmed + 1
  /\ pc' = "startTimer"
  /\ UNCHANGED <<currentStep, frameTime, frames, durationKnown, currentBeatIndex,
                 drawn, settledImages, result, resolveCalls, rejectError>>

\* part_004: recorder started, every image set to preload.
Begin_part_004 ==
  /\ recorderState' = "recording"
  /\ settledImages' = {}
  /\ currentBeatIndex' = -1
  /\ currentImageIndex' = -1
  /\ pc' = "loading"
  /\ UNCHANGED <<currentStep, progressLog, frameTime, frames, durationKnown,
                 lastBeatTime, drawn, timersArmed, result, resolveCalls, rejectError>>

\* The synchronous part of exportVideo (the promise executor), called by c.
ExportVideoBegin(c) ==
  /\ pc = "idle"
  /\ caller' = c
  /\ IF MissingRequiredData(images, audioFile, beats) THEN Rejects
     ELSE CASE variant = "videoExport" -> Begin_videoExport
            [] variant = "part_003" -> Begin_part_003
            [] variant = "part_004" -> Begin_part_004
  /\ UNCHANGED <<inputVars, envVars, currentTime, fnVars, previewVars, prevCall, uploadVars>>

\* onProgress as ExportPanel passes it: setExportProgress(progress)
PanelSeesProgress ==
  exportProgress' = IF caller = "panel" /\ progressLog' # progressLog
                    THEN Last(progressLog') ELSE exportProgress

\* exportVideo called directly, with whatever arguments.
ExportVideoCall ==
  /\ ExportVideoBegin("direct")
  /\ UNCHANGED panelVars

\* ExportPanel.handleExport up to its await (no detection is running).
HandleExport ==
  /\ ~isExporting
  /\ Len(images) # 0 /\ audioFile # NoFile /\ Len(beats) # 0
  /\ isExporting' = TRUE
  /\ ExportVideoBegin("panel")
  /\ exportProgress' = IF progressLog' # <<>> THEN Last(progressLog') ELSE Whole(0)
  /\ UNCHANGED <<isComplete, download>>

restOfCall == <<inputVars, envVars, currentTime, fnVars, previewVars, prevCall,
                caller, isExporting, isComplete, download, uploadVars>>

\* videoExport.ts: one of the five nested setTimeout callbacks runs.
SimTimerFires ==
  /\ pc = "simTimer"
  /\ currentStep' = currentStep + 1
  /\ progressLog' = Append(progressLog, SimProgress(currentStep'))
  /\ IF currentStep' < NestedTimers
     THEN /\ timersArmed' = timersArmed + 1
          /\ UNCHANGED <<pc, result, resolveCalls>>
     ELSE /\ result' = SimBlob
          /\ resolveCalls' = resolveCalls + 1
          /\ pc' = "resolved"
          /\ UNCHANGED timersArmed
  /\ PanelSeesProgress
  /\ UNCHANGED <<frameTime, frames, durationKnown, currentImageIndex, lastBeatTime,
                 currentBeatIndex, drawn, settledImages, recorderState, rejectError>>
  /\ UNCHANGED restOfCall

\* The audio element's metadata arrives: audio.duration is a number from now on.
AudioLoadedMetadata ==
  /\ pc \in {"startTimer", "loading"}
  /\ ~durationKnown
  /\ durationKnown' = TRUE
  /\ UNCHANGED <<pc, currentStep, progressLog, frameTime, frames, currentImageIndex,
                 lastBeatTime, currentBeatIndex, drawn, settledImages, recorderState,
                 timersArmed, result, resolveCalls, rejectError, exportProgress>>
  /\ UNCHANGED restOfCall

\* part_003 renderFrame at currentTime = t
RenderFrame_part_003(t) ==
  LET cbi == ScanBeats(beats, t, 0, 0)
      newBeat == cbi > 0 /\ beats[cbi + 1] # lastBeatTime
      idx == IF newBeat THEN cbi % Len(images) ELSE currentImageIndex
  IN /\ frameTime' = t
     /\ frames' = frames + 1
     /\ currentImageIndex' = idx
     /\ lastBeatTime' = IF newBeat THEN beats[cbi + 1] ELSE lastBeatTime
     /\ drawn' = idx
     /\ progressLog' = Append(progressLog, FrameProgress_part_003(t))
     /\ IF BeforeAudioEnd(t)
        THEN pc' = "frame" /\ UNCHANGED recorderState
        ELSE pc' = "stopping" /\ recorderState' = "inactive"
     /\ PanelSeesProgress
     /\ UNCHANGED <<currentStep, durationKnown, currentBeatIndex, settledImages,
                    timersArmed, result, resolveCalls, rejectError>>
     /\ UNCHANGED restOfCall

\* part_003: the 500 ms timer sets startTime and renders the first frame.
StartTimerFires ==
  /\ pc = "startTimer"
  /\ \E t \in FirstFrameTimes : RenderFrame_part_003(t)

\* part_003: requestAnimationFrame(renderFrame)
AnimationFrame_part_003 ==
  /\ pc = "frame" /\ variant = "part_003"
  /\ \E t \in NextFrameTimes : RenderFrame_part_003(t)

\* part_004 renderFrame at currentTime = t, after `log` was reported and with
\* image `shown` last handed to the canvas.
RenderFrame_part_004(t, log, shown) ==
  LET newBeatIndex == ScanBeats(beats, t, 0, -1)
      newImageIndex == IF newBeatIndex >= 0
                       THEN (newBeatIndex \div 2) % Len(images) ELSE 0
      redraw == newBeatIndex # currentBeatIndex /\ newImageIndex # currentImageIndex
  IN /\ frameTime' = t
     /\ frames' = frames + 1
     /\ currentBeatIndex' = newBeatIndex
     /\ currentImageIndex' = IF redraw THEN newImageIndex ELSE currentImageIndex
     /\ drawn' = IF redraw THEN newImageIndex ELSE shown
     /\ progressLog' = Append(log, FrameProgress_part_004(t))
     /\ IF BeforeAudioEnd(t)
        THEN pc' = "frame" /\ UNCHANGED timersArmed
        ELSE pc' = "stopTimer" /\ timersArmed' = timersArmed + 1
     /\ PanelSeesProgress
     /\ UNCHANGED <<currentStep, durationKnown, lastBeatTime, recorderState,
                    result, resolveCalls, rejectError>>
     /\ UNCHANGED restOfCall

\* part_004 startRendering: progress 30, the first image handed to the canvas,
\* then the first renderFrame.
StartRendering ==
  \E t \in FirstFrameTimes :
    RenderFrame_part_004(t, Append(progressLog, Whole(30)), 0)

\* part_004: img.onload / img.onerror of image i; the last one starts rendering.
ImageSettles(i) ==
  /\ pc = "loading"
  /\ i \in (1..Len(images)) \ settledImages
  /\ settledImages' = settledImages \cup {i}
  /\ IF settledImages' = 1..Len(images)
     THEN StartRendering
     ELSE /\ UNCHANGED <<pc, currentStep, progressLog, frameTime, frames, durationKnown,
                         currentImageIndex, lastBeatTime, currentBeatIndex, drawn,
                         recorderState, timersArmed, result, resolveCalls, rejectError,
                         exportProgress>>
          /\ UNCHANGED restOfCall

\* An image loads, or fails to (console.error); either way it counts as loaded.
ImageOnLoad == \E i \in 1..Len(images) : ImageSettles(i)
ImageOnError == \E i \in 1..Len(images) : ImageSettles(i)

\* part_004: requestAnimationFrame(renderFrame)
AnimationFrame_part_004 ==
  /\ pc = "frame" /\ variant = "part_004"
  /\ UNCHANGED settledImages
  /\ \E t \in NextFrameTimes : RenderFrame_part_004(t, progressLog, drawn)

\* Mutant: the timer pauses the audio and leaves the recorder running.
StopTimerFires_RecorderLeftRunning ==
  /\ pc = "stopTimer"
  /\ pc' = "paused"
  /\ UNCHANGED <<currentStep, progressLog, frameTime, frames, durationKnown,
                 currentImageIndex, lastBeatTime, currentBeatIndex, drawn, settledImages,
                 recorderState, timersArmed, result, resolveCalls, rejectError,
                 exportProgress>>
  /\ UNCHANGED restOfCall

\* part_004: the 500 ms timer armed at the audio's end stops the recorder.
StopTimerFires ==
  /\ pc = "stopTimer"
  /\ pc' = "stopping"
  /\ recorderState' = "inactive"
  /\ UNCHANGED <<currentStep, progressLog, frameTime, frames, durationKnown,
                 currentImageIndex, lastBeatTime, currentBeatIndex, drawn, settledImages,
                 timersArmed, result, resolveCalls, rejectError, exportProgress>>
  /\ UNCHANGED restOfCall

\* mediaRecorder.onstop (both MediaRecorder variants)
RecorderOnStop ==
  /\ pc = "stopping"
  /\ progressLog' = Append(progressLog, Whole(100))
  /\ result' = RecordedBlob
  /\ resolveCalls' = resolveCalls + 1
  /\ pc' = "resolved"
  /\ PanelSeesProgress
  /\ UNCHANGED <<currentStep, frameTime, frames, durationKnown, currentImageIndex,
                 lastBeatTime, currentBeatIndex, drawn, settledImages, recorderState,
                 timersArmed, rejectError>>
  /\ UNCHANGED restOfCall

\* ExportPanel.handleExport after its await: the blob is saved, then finally.
HandleExportSave ==
  /\ pc = "resolved" /\ caller = "panel" /\ isExporting
  /\ download' = [name |-> "beatframe-video.webm", type |-> result.type]
  /\ isComplete' = TRUE
  /\ isExporting' = FALSE
  /\ UNCHANGED <<inputVars, envVars, currentTime, fnVars, previewVars, callVars,
                 exportProgress, prevCall, uploadVars>>

\* ExportPanel: setTimeout(() => setIsComplete(false), 3000)
ResetComplete ==
  /\ isComplete
  /\ isComplete' = FALSE
  /\ UNCHANGED <<inputVars, envVars, currentTime, fnVars, previewVars, callVars,
                 isExporting, exportProgress, download, prevCall, uploadVars>>

SortedBeatLists == {bs \in BeatLists : IsSorted(bs)}

Init ==
  /\ variant \in Variants
  /\ images \in ImageLists
  /\ beats \in SortedBeatLists
  /\ audioFile \in AudioFiles
  /\ options = PanelOptions
  /\ audioDuration \in 1..MaxTime
  /\ currentTime = 0
  /\ ExportIdle
  /\ FnUnused
  /\ PreviewUnused
  /\ UploadUnused

Next ==
  \/ ExportVideoCall
  \/ HandleExport
  \/ SimTimerFires
  \/ AudioLoadedMetadata
  \/ StartTimerFires
  \/ AnimationFrame_part_003
  \/ ImageOnLoad
  \/ ImageOnError
  \/ AnimationFrame_part_004
  \/ StopTimerFires
  \/ RecorderOnStop
  \/ HandleExportSave
  \/ ResetComplete

Spec == Init /\ [][Next]_vars

\* Timers, animation frames, image load events and the recorder's stop event
\* are all delivered by the browser's event loop.
Fairness ==
  /\ WF_vars(SimTimerFires)
  /\ WF_vars(StartTimerFires)
  /\ WF_vars(AnimationFrame_part_003)
  /\ WF_vars(ImageOnLoad)
  /\ WF_vars(ImageOnError)
  /\ WF_vars(AnimationFrame_part_004)
  /\ WF_vars(StopTimerFires)
  /\ WF_vars(RecorderOnStop)
FairSpec == Spec /\ Fairness

\* --------------------------------- simulated export, call after call
OptionChoices == {PanelOptions, [width |-> 640, height |-> 480, fps |-> 24]}
ShortBeatLists == {bs \in SortedBeatLists : Len(bs) <= 1}

InitSim ==
  /\ variant = "videoExport"
  /\ images \in ImageLists
  /\ beats \in ShortBeatLists
  /\ audioFile \in AudioFiles
  /\ options \in OptionChoices
  /\ audioDuration = 1
  /\ currentTime = 0
  /\ ExportIdle
  /\ FnUnused
  /\ PreviewUnused
  /\ UploadUnused

\* The settled call is put on record and exportVideo is given new arguments.
NewCall ==
  /\ pc \in {"resolved", "rejected"}
  /\ prevCall' = [outcome |-> pc, blob |-> result, progress |-> progressLog,
                  images |-> images, beats |-> beats, audioFile |-> audioFile,
                  options |-> options]
  /\ images' \in ImageLists
  /\ beats' \in ShortBeatLists
  /\ audioFile' \in AudioFiles
  /\ options' \in OptionChoices
  /\ pc' = "idle" /\ caller' = "none" /\ currentStep' = 0 /\ progressLog' = <<>>
  /\ timersArmed' = 0 /\ result' = NoBlob /\ resolveCalls' = 0 /\ rejectError' = ""
  /\ UNCHANGED <<variant, audioDuration, currentTime, fnVars, previewVars,
                 frameTime, frames, durationKnown, currentImageIndex, lastBeatTime,
                 currentBeatIndex, drawn, settledImages, recorderState, panelVars,
                 uploadVars>>

NextSim == ExportVideoCall \/ SimTimerFires \/ NewCall
SpecSim == InitSim /\ [][NextSim]_vars

maxImages == 300      \* Index.handleImagesUpload: images.length + files.length > 300
maxFiles == 300       \* DropZone: maxFiles = 300

\* A dropped file is "image" (an image that reads fine), "unreadable" (an image
\* whose FileReader fails) or "other" (its type does not start with 'image/').
FilesOf(n, kind) == [i \in 1..n |-> kind]
FileBatches ==
  {FilesOf(1, "image"), <<"image", "other">>, <<"other">>, <<"unreadable">>,
   FilesOf(BigBatch, "image"), FilesOf(maxFiles + 1, "image")}

\* for (const file of files): files that are no images are skipped without
\* waiting; the result is the position of the next file to read.
RECURSIVE NextToRead(_, _)
NextToRead(files, i) ==
  IF i > Len(files) THEN i
  ELSE IF files[i] = "other" THEN NextToRead(files, i + 1)
  ELSE i

\* Whether one of files[from..to-1] was skipped with toast.error('... is not an image').
SkippedAny(files, from, to) == \E k \in from..(to - 1) : files[k] = "other"
SkipToast(files, from, to, toast) ==
  IF SkippedAny(files, from, to) THEN "File is not an image" ELSE toast

\* if (newImages.length > 0) { setImages(prev => [...prev, ...newImages]); toast.success(...) }
Finish(newImages, toast) ==
  /\ images' = IF Len(newImages) > 0 THEN images \o newImages ELSE images
  /\ lastToast' = IF Len(newImages) > 0 THEN "Added images" ELSE toast

\* DropZone.handleDrop / handleFileInput, then Index.handleImagesUpload up to
\* its first await (or to its end when no file is read).
HandleImagesUpload ==
  /\ started < MaxUploads
  /\ started' = started + 1
  /\ \E files \in FileBatches :
       LET next == NextToRead(files, 1)
           toast == SkipToast(files, 1, next, lastToast)
       IN IF Len(files) > maxFiles
          THEN /\ lastToast' = "Maximum 300 files allowed."
               /\ UNCHANGED <<images, uploads>>
          ELSE IF Len(images) + Len(files) > maxImages
          THEN /\ lastToast' = "Maximum 300 images allowed"
               /\ UNCHANGED <<images, uploads>>
          ELSE IF next > Len(files)
          THEN /\ Finish(<<>>, toast)
               /\ UNCHANGED uploads
          ELSE /\ uploads' = Append(uploads, [id |-> started', files |-> files,
                                               next |-> next, newImages |-> <<>>])
               /\ lastToast' = toast
               /\ UNCHANGED images
  /\ UNCHANGED <<variant, beats, audioFile, currentTime, fnVars, previewVars,
                 exportVars, edits, audioVars, renderVars>>

Without(s, k) == [i \in 1..(Len(s) - 1) |-> IF i < k THEN s[i] ELSE s[i + 1]]

\* reader.onload / reader.onerror of the file call k waits for, then the loop
\* up to the next read or the end of handleImagesUpload.
FileReaderSettles ==
  \E k \in 1..Len(uploads) :
    LET call == uploads[k]
        loaded == call.files[call.next] = "image"
        newImages == IF loaded THEN Append(call.newImages, call.id) ELSE call.newImages
        next == NextToRead(call.files, call.next + 1)
        toast == SkipToast(call.files, call.next + 1, next,
                           IF loaded THEN lastToast ELSE "Error reading file")
    IN /\ IF next > Len(call.files)
          THEN /\ Finish(newImages, toast)
               /\ uploads' = Without(uploads, k)
          ELSE /\ uploads' = [uploads EXCEPT ![k].next = next, ![k].newImages = newImages]
               /\ lastToast' = toast
               /\ UNCHANGED images
       /\ UNCHANGED <<variant, beats, audioFile, currentTime, fnVars, previewVars,
                      exportVars, started, edits, audioVars, renderVars>>

\* The indexes ImageGrid offers, narrowed to both ends of the list.
EndIndexes == {0, Len(images) - 1}

\* Index.handleRemoveImage(index): newImages.splice(index, 1)
HandleRemoveImage ==
  /\ edits < MaxEdits /\ Len(images) > 0
  /\ edits' = edits + 1
  /\ \E index \in EndIndexes : images' = Without(images, index + 1)
  /\ UNCHANGED <<variant, beats, audioFile, currentTime, fnVars, previewVars,
                 exportVars, uploads, started, lastToast, audioVars, renderVars>>

\* ImageGrid.handleDrop: the dragged image is taken out and put back at dropIndex.
Moved(imgs, draggedIndex, dropIndex) ==
  LET rest == Without(imgs, draggedIndex + 1)
  IN [i \in 1..Len(imgs) |->
        IF i < dropIndex + 1 THEN rest[i]
        ELSE IF i = dropIndex + 1 THEN imgs[draggedIndex + 1]
        ELSE rest[i - 1]]

\* ImageGrid.handleDrop, then Index.handleReorderImages(newImages)
HandleReorderImages ==
  /\ edits < MaxEdits /\ Len(images) > 1
  /\ edits' = edits + 1
  /\ \E draggedIndex \in EndIndexes, dropIndex \in EndIndexes :
       /\ draggedIndex # dropIndex
       /\ images' = Moved(images, draggedIndex, dropIndex)
  /\ UNCHANGED <<variant, beats, audioFile, currentTime, fnVars, previewVars,
                 exportVars, uploads, started, lastToast, audioVars, renderVars>>

InitUpload ==
  /\ variant = "videoExport"
  /\ images = <<>>
  /\ beats = <<>>
  /\ audioFile = NoFile
  /\ currentTime = 0
  /\ FnUnused
  /\ PreviewUnused
  /\ ExportUnused

NextUpload ==
  HandleImagesUpload \/ FileReaderSettles \/ HandleRemoveImage \/ HandleReorderImages
SpecUpload == InitUpload /\ [][NextUpload]_vars

\* ------------------------------------ ExportPanel, from render to render
\* handleExport and the button read isProcessing and isExporting from the
\* render they were created in; the values change only with the next render.
MaxExportCalls == 2   \* clicks on the export button in one run

\* ExportPanel: const canExport = images.length > 0 && audioFile && beats.length > 0 && !isProcessing
canExport(imgs, file, bs, processing) ==
  Len(imgs) > 0 /\ file # NoFile /\ Len(bs) > 0 /\ ~processing

\* <button onClick={handleExport} disabled={!canExport || isExporting}>
ButtonDisabled ==
  ~canExport(images, audioFile, beats, rendered.isProcessing) \/ rendered.isExporting

\* handleExport: if (isProcessing || isExporting) return;
StartsExport(processing, exporting) == ~(processing \/ exporting)

panelRest == <<inputVars, currentTime, fnVars, previewVars, envVars, callVars, prevCall,
               uploads, started, edits>>

\* A click on the enabled button: handleExport up to its await.
ClickExport ==
  /\ exportCalls < MaxExportCalls
  /\ ~ButtonDisabled
  /\ exportCalls' = exportCalls + 1
  /\ IF ~StartsExport(rendered.isProcessing, rendered.isExporting)
     THEN UNCHANGED <<isExporting, exportProgress, inFlight, lastToast>>
     ELSE IF Len(images) = 0
     THEN /\ lastToast' = "Please upload images first."
          /\ UNCHANGED <<isExporting, exportProgress, inFlight>>
     ELSE IF audioFile = NoFile
     THEN /\ lastToast' = "Please upload audio first."
          /\ UNCHANGED <<isExporting, exportProgress, inFlight>>
     ELSE IF Len(beats) = 0
     THEN /\ lastToast' = "Please process audio to detect beats first."
          /\ UNCHANGED <<isExporting, exportProgress, inFlight>>
     ELSE /\ isExporting' = TRUE
          /\ exportProgress' = Whole(0)
          /\ inFlight' = inFlight + 1
          /\ UNCHANGED lastToast
  /\ UNCHANGED <<panelRest, audioVars, rendered, isComplete, download>>

\* onProgress of an exportVideo call that has not settled: setExportProgress(progress)
ExportReportsProgress ==
  /\ inFlight > 0
  /\ \E step \in 1..totalSteps :
       /\ exportProgress # SimProgress(step)
       /\ exportProgress' = SimProgress(step)
  /\ UNCHANGED <<panelRest, audioVars, renderVars, isExporting, isComplete, download,
                 lastToast>>

\* One exportVideo call settles; handleExport runs on from its await: the blob
\* is saved (or the catch toasts), then finally setIsExporting(false).
ExportSettles ==
  /\ inFlight > 0
  /\ inFlight' = inFlight - 1
  /\ isExporting' = FALSE
  /\ \E resolved \in BOOLEAN :
       IF resolved
       THEN /\ download' = [name |-> "beatframe-video.webm", type |-> SimBlob.type]
            /\ isComplete' = TRUE
            /\ lastToast' = "Video exported successfully!"
       ELSE /\ lastToast' = "Failed to export video. Please try again."
            /\ UNCHANGED <<download, isComplete>>
  /\ UNCHANGED <<panelRest, audioVars, rendered, exportCalls, exportProgress>>

\* React renders ExportPanel again: the button and handleExport now close over
\* the current isProcessing prop and isExporting state.
RenderPanel ==
  /\ rendered # [isProcessing |-> isProcessing, isExporting |-> isExporting]
  /\ rendered' = [isProcessing |-> isProcessing, isExporting |-> isExporting]
  /\ UNCHANGED <<panelRest, audioVars, inFlight, exportCalls, panelVars, lastToast>>

\* Index.handleAudioUpload as the panel sees it: setIsProcessing(true), and
\* setIsProcessing(false) in its finally.
IndexSetsIsProcessing ==
  /\ isProcessing' = ~isProcessing
  /\ UNCHANGED <<panelRest, renderVars, panelVars, lastToast, isPlaying,
                 indexAudioDuration, detections, audioCalls, lastDrop, loadedAudio,
                 audioPlaying, restartTimers>>

InitPanel ==
  /\ variant = "videoExport"
  /\ images \in {<<1>>, <<1, 2>>}
  /\ beats = <<1>>
  /\ audioFile = "audio"
  /\ currentTime = 0
  /\ FnUnused
  /\ PreviewUnused
  /\ ExportUnused

NextPanel ==
  \/ ClickExport
  \/ ExportReportsProgress
  \/ ExportSettles
  \/ RenderPanel
  \/ IndexSetsIsProcessing
  \/ ResetComplete
SpecPanel == InitPanel /\ [][NextPanel]_vars

\* --------------------------------------------- Index: the audio file
MaxAudioCalls == 2    \* handleAudioUpload calls in one run
MaxDropFiles == 2     \* files handed to one handleAudioUpload call
MaxRestartTimers == 1 \* pending handleScrub timers

\* File.type, character group by character group.
AudioMpeg == <<"audio", "/", "mpeg">>
ImagePng == <<"image", "/", "png">>
BareAudio == <<"audio">>
DroppedFiles ==
  { [name |-> "A", type |-> AudioMpeg], [name |-> "B", type |-> AudioMpeg],
    [name |-> "png", type |-> ImagePng], [name |-> "odd", type |-> BareAudio] }
DropBatches == SeqsUpTo(DroppedFiles, MaxDropFiles)

\* String.prototype.startsWith
StartsWith(str, prefix) ==
  /\ Len(str) >= Len(prefix)
  /\ \A i \in 1..Len(prefix) : str[i] = prefix[i]

\* Mutant: every file passes for an audio file.
IsAudioFile_AnyType(file) == TRUE

\* file.type.startsWith('audio/')
IsAudioFile(file) == StartsWith(file.type, <<"audio", "/">>)

\* beatDetector: what detectBeats and getAudioDuration return for a decoded file.
DetectedBeats(name) == IF name = "A" THEN <<1>> ELSE <<1, 2>>
DurationOf(name) == IF name = "A" THEN 2 ELSE 3

audioRest == <<variant, images, fnVars, previewVars, exportVars, uploads, started, edits,
               renderVars>>

\* DropZone's onFilesDrop, then Index.handleAudioUpload up to its first await.
HandleAudioUpload ==
  /\ audioCalls < MaxAudioCalls
  /\ audioCalls' = audioCalls + 1
  /\ \E files \in DropBatches :
       /\ lastDrop' = files
       /\ IF Len(files) = 0
          THEN UNCHANGED <<audioFile, beats, indexAudioDuration, currentTime, isPlaying,
                           isProcessing, detections, lastToast>>
          ELSE IF ~IsAudioFile(files[1])
          THEN /\ lastToast' = "File is not an audio file"
               /\ UNCHANGED <<audioFile, beats, indexAudioDuration, currentTime, isPlaying,
                              isProcessing, detections>>
          ELSE /\ audioFile' = files[1].name
               /\ lastToast' = "Added audio"
               /\ beats' = <<>>
               /\ indexAudioDuration' = 0
               /\ currentTime' = 0
               /\ isPlaying' = FALSE
               /\ isProcessing' = TRUE
               /\ detections' =
                    Append([k \in 1..Len(detections) |->
                              [detections[k] EXCEPT !.alone = FALSE]],
                           [file |-> files[1].name, at |-> "loadAudio", buffer |-> NoFile,
                            alone |-> detections = <<>>])
  /\ UNCHANGED <<audioRest, loadedAudio, audioPlaying, restartTimers>>

\* catch and finally of handleAudioUpload, for the call at position k.
DetectionFails(k) ==
  /\ lastToast' = "Error processing audio file"
  /\ isProcessing' = FALSE
  /\ detections' = Without(detections, k)

\* beatDetector.loadAudio settles; on success handleAudioUpload calls detectBeats.
LoadAudioSettles ==
  \E k \in 1..Len(detections) :
    /\ detections[k].at = "loadAudio"
    /\ \E decoded \in BOOLEAN :
         IF decoded
         THEN /\ loadedAudio' = detections[k].file
              /\ detections' = [detections EXCEPT ![k].at = "detectBeats",
                                                  ![k].buffer = detections[k].file]
              /\ UNCHANGED <<isProcessing, lastToast>>
         ELSE /\ DetectionFails(k)
              /\ UNCHANGED loadedAudio
    /\ UNCHANGED <<audioRest, audioFile, beats, indexAudioDuration, currentTime, isPlaying,
                   audioCalls, lastDrop, audioPlaying, restartTimers>>

\* beatDetector.detectBeats settles; handleAudioUpload runs on to its end.
DetectBeatsSettles ==
  \E k \in 1..Len(detections) :
    /\ detections[k].at = "detectBeats"
    /\ \E detected \in BOOLEAN :
         IF detected
         THEN /\ beats' = DetectedBeats(detections[k].buffer)
              /\ indexAudioDuration' = DurationOf(loadedAudio)
              /\ lastToast' = "Detected beats in audio"
              /\ isProcessing' = FALSE
              /\ detections' = Without(detections, k)
         ELSE /\ DetectionFails(k)
              /\ UNCHANGED <<beats, indexAudioDuration>>
    /\ UNCHANGED <<audioRest, audioFile, currentTime, isPlaying, audioCalls, lastDrop,
                   loadedAudio, audioPlaying, restartTimers>>

\* Index.handlePlayPause
HandlePlayPause ==
  /\ IF isPlaying
     THEN /\ audioPlaying' = FALSE
          /\ isPlaying' = FALSE
          /\ UNCHANGED lastToast
     ELSE IF audioFile # NoFile /\ Len(beats) > 0
     THEN /\ audioPlaying' = TRUE
          /\ isPlaying' = TRUE
          /\ UNCHANGED lastToast
     ELSE /\ lastToast' = "Please upload and process audio first"
          /\ UNCHANGED <<audioPlaying, isPlaying>>
  /\ UNCHANGED <<audioRest, audioFile, beats, indexAudioDuration, currentTime, isProcessing,
                 detections, audioCalls, lastDrop, loadedAudio, restartTimers>>

\* The callback handed to beatDetector.playAudio: setCurrentTime(time)
PlaybackReportsTime ==
  /\ audioPlaying
  /\ \E time \in Times : currentTime # time /\ currentTime' = time
  /\ UNCHANGED <<audioRest, audioFile, beats, indexAudioDuration, isPlaying, isProcessing,
                 detections, audioCalls, lastDrop, loadedAudio, audioPlaying, restartTimers,
                 lastToast>>

\* Timeline (rendered while an audio file is set and isProcessing is false)
\* calls Index.handleScrub(time) with 0 <= time <= duration.
HandleScrub_Index ==
  /\ audioFile # NoFile /\ ~isProcessing
  /\ restartTimers < MaxRestartTimers
  /\ \E time \in 0..indexAudioDuration : currentTime' = time
  /\ IF isPlaying
     THEN /\ audioPlaying' = FALSE
          /\ isPlaying' = FALSE
          /\ restartTimers' = restartTimers + 1
     ELSE UNCHANGED <<audioPlaying, isPlaying, restartTimers>>
  /\ UNCHANGED <<audioRest, audioFile, beats, indexAudioDuration, isProcessing, detections,
                 audioCalls, lastDrop, loadedAudio, lastToast>>

\* handleScrub's setTimeout(..., 50): playAudio again, setIsPlaying(true)
RestartTimerFires ==
  /\ restartTimers > 0
  /\ restartTimers' = restartTimers - 1
  /\ audioPlaying' = TRUE
  /\ isPlaying' = TRUE
  /\ UNCHANGED <<audioRest, audioFile, beats, indexAudioDuration, currentTime, isProcessing,
                 detections, audioCalls, lastDrop, loadedAudio, lastToast>>

\* Index.handleReset
HandleReset_Index ==
  /\ audioPlaying \/ currentTime # 0 \/ isPlaying
  /\ audioPlaying' = FALSE
  /\ currentTime' = 0
  /\ isPlaying' = FALSE
  /\ UNCHANGED <<audioRest, audioFile, beats, indexAudioDuration, isProcessing, detections,
                 audioCalls, lastDrop, loadedAudio, restartTimers, lastToast>>

InitAudio ==
  /\ variant = "videoExport"
  /\ images = <<>>
  /\ beats = <<>>
  /\ audioFile = NoFile
  /\ currentTime = 0
  /\ FnUnused
  /\ PreviewUnused
  /\ ExportUnused

NextAudio ==
  \/ HandleAudioUpload
  \/ LoadAudioSettles
  \/ DetectBeatsSettles
  \/ HandlePlayPause
  \/ PlaybackReportsTime
  \/ HandleScrub_Index
  \/ RestartTimerFires
  \/ HandleReset_Index
SpecAudio == InitAudio /\ [][NextAudio]_vars

\* C8 (as claimed): after any sequence and interleaving of handleImagesUpload,
\* handleRemoveImage and handleReorderImages calls, the image list of Index
\* holds at most 300 images.
C8_AtMost300Images == Len(images) <= 300

\* C1: getImageForTime of src/lib/videoExport.ts returns 0 when beats or images
\* is empty; for beats sorted by non-decreasing time and a non-empty image list
\* it returns (the largest i with beats[i].time <= t) mod images.length, 0 when
\* no beat is at or before t, and always a valid index 0..images.length-1.
BeatsAtOrBefore(bs, t) == {i \in 0..(Len(bs) - 1) : bs[i + 1] <= t}
C1_IndexCycling ==
  (fnPc = "called" /\ variant = "videoExport") =>
    /\ (Len(beats) = 0 \/ Len(images) = 0) => imageIndex = 0
    /\ (Len(images) > 0 /\ IsSorted(beats)) =>
         /\ imageIndex \in 0..(Len(images) - 1)
         /\ BeatsAtOrBefore(beats, currentTime) = {} => imageIndex = 0
         /\ BeatsAtOrBefore(beats, currentTime) # {} =>
              imageIndex = SetMax(BeatsAtOrBefore(beats, currentTime)) % Len(images)

\* C1 witness: a call on a sorted beat list where the latest beat's index is
\* beyond the image count, so the index has wrapped around.
C1_Witness ==
  /\ fnPc = "called" /\ variant = "videoExport"
  /\ IsSorted(beats) /\ Len(images) = 2 /\ Len(beats) = 3
  /\ BeatsAtOrBefore(beats, currentTime) = {0, 1, 2}
  /\ imageIndex = 0

\* C10 (as claimed): for strictly increasing beat times and a non-empty image
\* list, the thumbnail Timeline shows under beat i, images[i mod images.length],
\* is the image the preview selects at that beat's time,
\* images[getImageForTime(beats[i].time, beats, images)], in every variant.
C10_ThumbnailIsPreviewImage ==
  (/\ fnPc = "called"
   /\ Len(images) > 0
   /\ IsStrictlySorted(beats)
   /\ beatIndex < Len(beats)
   /\ currentTime = beats[beatIndex + 1]) =>
      thumbnail = images[imageIndex + 1]

\* C3: in every variant, exportVideo called with an empty image list, no audio
\* file or an empty beat list rejects with 'Missing required data for video
\* export', never calls onProgress, never resolves and starts no timer, no
\* recorder and no render loop.
C3_InvalidCallRejects ==
  (pc # "idle" /\ (Len(images) = 0 \/ audioFile = NoFile \/ Len(beats) = 0)) =>
    /\ pc = "rejected"
    /\ rejectError = "Missing required data for video export"
    /\ progressLog = <<>>
    /\ resolveCalls = 0 /\ result = NoBlob
    /\ timersArmed = 0 /\ recorderState = "none" /\ frames = 0 /\ settledImages = {}

\* C3 witness: a MediaRecorder variant has rejected a call whose only missing
\* piece is the beat list.
C3_Witness ==
  /\ pc = "rejected" /\ variant = "part_003"
  /\ Len(images) > 0 /\ audioFile # NoFile /\ Len(beats) = 0

HundredsReported == {i \in 1..Len(progressLog) : RatEq(progressLog[i], Whole(100))}
ValidInputs == Len(images) > 0 /\ audioFile # NoFile /\ Len(beats) > 0

C5_ProgressNonDecreasing ==
  /\ \A i \in 1..Len(progressLog) :
       RatLE(Whole(0), progressLog[i]) /\ RatLE(progressLog[i], Whole(100))
  /\ \A i \in 1..(Len(progressLog) - 1) : RatLE(progressLog[i], progressLog[i + 1])

\* C7 (as claimed): the blob handleExport saves as 'beatframe-video.webm',
\* under the label 'WebM (VP9)', has MIME type video/webm, whichever
\* exportVideo variant the panel is wired to.
C7_SavedBlobIsWebM ==
  download # NoDownload =>
    download.name = "beatframe-video.webm" /\ download.type = "video/webm"

\* C9 (as claimed): in each MediaRecorder variant, at every rendered frame with
\* elapsed time t, over beats sorted by non-decreasing time (times >= 0,
\* duplicates allowed) and a non-empty image list, the image index the render
\* loop has drawn or selected equals getImageForTime(t, beats, images) of the
\* same file.
C9_RenderLoopFollowsGetImageForTime ==
  (variant \in {"part_003", "part_004"} /\ frames > 0) =>
    \/ drawn = GetImageForTimeOf(variant, frameTime, beats, images)
    \/ currentImageIndex = GetImageForTimeOf(variant, frameTime, beats, images)

\* C11 (as claimed): at most one export is in flight per ExportPanel: whatever
\* the sequence of handleExport invocations (two of them before the component
\* re-renders included), no exportVideo call is started while an earlier call
\* of the panel is unsettled, and none is started while isProcessing is true.
C11_OneExportInFlight ==
  [][inFlight' > inFlight => (inFlight = 0 /\ ~isProcessing)]_vars

C13_ProcessingWhileDetecting == detections # <<>> => isProcessing

\* C14: handleAudioUpload called with an empty file list, or with a first file
\* whose type does not start with 'audio/', leaves audioFile, beats,
\* audioDuration, currentTime, isPlaying and isProcessing unchanged and starts
\* no detection; of several files only the first is considered: when its type
\* starts with 'audio/' it becomes audioFile and is the file being detected.
C14_InvalidUploadChangesNothing ==
  [][audioCalls' # audioCalls =>
       IF lastDrop' = <<>> \/ ~StartsWith(Head(lastDrop').type, <<"audio", "/">>)
       THEN UNCHANGED <<audioFile, beats, indexAudioDuration, currentTime, isPlaying,
                        isProcessing, detections>>
       ELSE /\ audioFile' = Head(lastDrop').name
            /\ Len(detections') = Len(detections) + 1
            /\ Last(detections').file = Head(lastDrop').name]_vars

\* C14 witness: with audio A processed and playing, a call was made with a file
\* that is no audio file first and an audio file second; nothing has changed.
C14_Witness ==
  /\ Len(lastDrop) = 2
  /\ ~StartsWith(lastDrop[1].type, <<"audio", "/">>)
  /\ StartsWith(lastDrop[2].type, <<"audio", "/">>)
  /\ lastDrop[2].name = "B"
  /\ audioFile = "A" /\ beats = DetectedBeats("A") /\ isPlaying
  /\ detections = <<>>

\* C15 (as claimed): when loadAudio or detectBeats fails for an accepted audio
\* file and no other upload overlapped the call, handleAudioUpload ends with
\* isProcessing = false, beats = [], audioDuration = 0, currentTime = 0,
\* isPlaying = false and audioFile the new file.
C15_FailureLeavesResetState ==
  [][(Len(detections) = 1 /\ detections[1].alone /\ detections' = <<>>
        /\ lastToast' = "Error processing audio file") =>
       /\ isProcessing' = FALSE
       /\ beats' = <<>>
       /\ indexAudioDuration' = 0
       /\ currentTime' = 0
       /\ isPlaying' = FALSE
       /\ audioFile' = detections[1].file]_vars

====
